---- MODULE Spec2Model ----
(***************************************************************************)
(* A model of MongoDBProvider (src/index.js): a settings provider for the  *)
(* discord-akairo framework that keeps a cache (this.items) of one         *)
(* settings document per guild, loads it from a MongoDB collection in      *)
(* init(), and pushes settings onto the live Guild, Command and Category   *)
(* objects of the Akairo client.                                           *)
(*                                                                         *)
(* JavaScript values are records [t |-> type, s |-> characters]: a string  *)
(* is the sequence of its characters, so that conversions such as          *)
(* isNaN(string) are computed from the text and not assumed.               *)
(***************************************************************************)
EXTENDS Integers, Sequences, FiniteSets, TLC

(***************************************************************************)
(* Bounds of the model.                                                    *)
(***************************************************************************)
\* longest string enumerated as an input of getGuildID
MaxLen == 3
\* number of public-API calls recorded in one behaviour
MaxCalls == 2
\* number of updateGuild calls suspended at their await at one time
MaxUpdates == 2

(***************************************************************************)
(* JavaScript values.                                                      *)
(***************************************************************************)
Undefined == [t |-> "undefined", s |-> <<>>]
Null == [t |-> "null", s |-> <<>>]
Str(chars) == [t |-> "string", s |-> chars]
NumberV(chars) == [t |-> "number", s |-> chars]
BoolV(b) == [t |-> "boolean", s |-> IF b THEN <<"t">> ELSE <<"f">>]
\* an instance of discord.js Guild whose id is the string `id`
GuildObj(id) == [t |-> "Guild", s |-> id]
\* a plain object; s lists its field names in order (every field holds 1)
ObjV(fields) == [t |-> "object", s |-> fields]

GLOBAL == <<"g", "l", "o", "b", "a", "l">>
INFINITY == <<"I", "n", "f", "i", "n", "i", "t", "y">>

Digits == {"0", "1", "2", "3", "4", "5", "6", "7", "8", "9"}
HexDigits == Digits \cup {"a", "b", "c", "d", "e", "f", "A", "B", "C", "D", "E", "F"}
OctalDigits == {"0", "1", "2", "3", "4", "5", "6", "7"}
BinaryDigits == {"0", "1"}
\* StrWhiteSpaceChar, which StringToNumber strips from both ends (line 234):
\* WhiteSpace and LineTerminator of the language, the Zs class included. A
\* string is the sequence of its code units; a unit that has no escape here
\* is written by its code point.
WhiteSpace ==
  {" ", "\t", "\n", "\r", "\f", "U+000B", "U+00A0", "U+FEFF", "U+2028", "U+2029",
   "U+1680", "U+2000", "U+2001", "U+2002", "U+2003", "U+2004", "U+2005", "U+2006",
   "U+2007", "U+2008", "U+2009", "U+200A", "U+202F", "U+205F", "U+3000"}

AllIn(chars, set) == \A i \in 1..Len(chars) : chars[i] \in set
IsDigits(chars) == Len(chars) > 0 /\ AllIn(chars, Digits)

(***************************************************************************)
(* ToNumber applied to a string (ECMAScript StringToNumber), as far as     *)
(* isNaN needs it: is the text, white space trimmed, empty or a            *)
(* StrNumericLiteral?                                                      *)
(***************************************************************************)
RECURSIVE TrimLeft(_)
TrimLeft(chars) ==
  IF Len(chars) > 0 /\ Head(chars) \in WhiteSpace THEN TrimLeft(Tail(chars)) ELSE chars

RECURSIVE TrimRight(_)
TrimRight(chars) ==
  IF Len(chars) > 0 /\ chars[Len(chars)] \in WhiteSpace
  THEN TrimRight(SubSeq(chars, 1, Len(chars) - 1))
  ELSE chars

Trim(chars) == TrimRight(TrimLeft(chars))

\* DecimalDigits . DecimalDigits(opt) | . DecimalDigits | DecimalDigits
IsMantissa(chars) ==
  \/ IsDigits(chars)
  \/ \E i \in 1..Len(chars) :
       /\ chars[i] = "."
       /\ AllIn(SubSeq(chars, 1, i - 1), Digits)
       /\ AllIn(SubSeq(chars, i + 1, Len(chars)), Digits)
       /\ Len(chars) > 1

\* what follows the e or E of an ExponentPart: a SignedInteger
IsSignedInteger(chars) ==
  IsDigits(IF Len(chars) > 0 /\ Head(chars) \in {"+", "-"} THEN Tail(chars) ELSE chars)

IsStrUnsignedDecimalLiteral(chars) ==
  \/ chars = INFINITY
  \/ IsMantissa(chars)
  \/ \E i \in 1..Len(chars) :
       /\ chars[i] \in {"e", "E"}
       /\ IsMantissa(SubSeq(chars, 1, i - 1))
       /\ IsSignedInteger(SubSeq(chars, i + 1, Len(chars)))

IsStrDecimalLiteral(chars) ==
  IsStrUnsignedDecimalLiteral(
    IF Len(chars) > 0 /\ Head(chars) \in {"+", "-"} THEN Tail(chars) ELSE chars)

\* 0x.., 0o.., 0b..: no sign allowed
IsNonDecimalIntegerLiteral(chars) ==
  /\ Len(chars) >= 3
  /\ chars[1] = "0"
  /\ LET rest == SubSeq(chars, 3, Len(chars)) IN
       \/ chars[2] \in {"x", "X"} /\ AllIn(rest, HexDigits)
       \/ chars[2] \in {"o", "O"} /\ AllIn(rest, OctalDigits)
       \/ chars[2] \in {"b", "B"} /\ AllIn(rest, BinaryDigits)

\* isNaN(v) for a string v: Number(v) is NaN
IsNaNString(chars) ==
  LET t == Trim(chars) IN
    ~ (t = <<>> \/ IsStrDecimalLiteral(t) \/ IsNonDecimalIntegerLiteral(t))

(***************************************************************************)
(* Results of a call: a returned value or a thrown error.                  *)
(***************************************************************************)
Return(v) == [threw |-> FALSE, val |-> v, err |-> "none"]
Throw(e) == [threw |-> TRUE, val |-> Undefined, err |-> e]

(***************************************************************************)
(* static getGuildID (guild), called as MongoDBProvider.getGuildID.        *)
(***************************************************************************)
getGuildID(guild) ==
  IF guild.t = "Guild" THEN Return(Str(guild.s))
  ELSE IF guild = Str(GLOBAL) \/ guild = Null THEN Return(Str(GLOBAL))
  ELSE IF guild.t = "string" /\ ~ IsNaNString(guild.s) THEN Return(guild)
  ELSE Throw("TypeError")

(***************************************************************************)
(* this.getGuildID(guild), as written in get, set, delete and clear.       *)
(* getGuildID is declared static (line 231): it is a property of the       *)
(* constructor MongoDBProvider, not of MongoDBProvider.prototype, and the  *)
(* base class Provider defines init, get, set, delete and clear only. On   *)
(* an instance this.getGuildID is therefore undefined, and calling it      *)
(* throws "TypeError: this.getGuildID is not a function" whatever the      *)
(* argument is.                                                            *)
(***************************************************************************)
ThisGetGuildID(guild) == Throw("TypeError")

(***************************************************************************)
(* Settings documents: key -> value, Undefined for a key that is not set.  *)
(***************************************************************************)
CommandIDs == {"ping"}
CategoryIDs == {"util"}
CmdKey(id) == "cmd-" \o id
CatKey(id) == "cat-" \o id
Keys == {"prefix"} \cup {CmdKey(c) : c \in CommandIDs} \cup {CatKey(c) : c \in CategoryIDs}

EmptyDoc == [k \in Keys |-> Undefined]
Doc(prefix, cmd, cat) ==
  [k \in Keys |-> IF k = "prefix" THEN prefix
                  ELSE IF k = CmdKey("ping") THEN cmd ELSE cat]

\* no document: what Map.get returns for a missing key, a store without the record
NoDoc == [k \in Keys |-> [t |-> "none", s |-> <<>>]]

(***************************************************************************)
(* this.items: a Map, kept as its entries in insertion order.              *)
(***************************************************************************)
ItemsHas(m, key) == \E i \in 1..Len(m) : m[i].k = key
ItemsGet(m, key) ==
  IF ItemsHas(m, key) THEN m[CHOOSE i \in 1..Len(m) : m[i].k = key].v ELSE NoDoc
\* Map.set: an existing key keeps its place, a new key goes last
ItemsSet(m, key, doc) ==
  IF ItemsHas(m, key)
  THEN [i \in 1..Len(m) |-> IF m[i].k = key THEN [k |-> key, v |-> doc] ELSE m[i]]
  ELSE Append(m, [k |-> key, v |-> doc])

(***************************************************************************)
(* The Akairo client (this.akairoClient) as far as the provider touches    *)
(* it: guilds (the ids of the guilds the client knows), the attributes     *)
(* the provider writes on Guild objects (_commandPrefix, _commandsEnabled, *)
(* _categoriesEnabled), on the client (_commandPrefix) and on the          *)
(* registered commands and categories (_globalEnabled).                    *)
(***************************************************************************)
GuildIDs == {<<"1">>, <<"2">>}

\* ToBoolean
Truthy(v) ==
  CASE v.t \in {"undefined", "null", "none"} -> FALSE
    [] v.t = "string" -> v.s # <<>>
    [] v.t = "number" -> v.s # <<"0">>
    [] v.t = "boolean" -> v.s = <<"t">>
    [] OTHER -> TRUE

\* this.akairoClient.guilds.has(key): the Collection is keyed by id strings
GuildsHas(client, key) == key.t = "string" /\ key.s \in client.guilds

Done(client) == [threw |-> FALSE, client |-> client]
Failed(client) == [threw |-> TRUE, client |-> client]

(***************************************************************************)
(* setupGuildCommand with the test of line 183 written as a truthiness     *)
(* test, if (!settings[`cmd-${command.id}`]) return: a setting of false    *)
(* is then never applied.                                                  *)
(***************************************************************************)
setupGuildCommand_truthy(client, guild, command, settings) ==
  IF ~ Truthy(settings[CmdKey(command)]) THEN Done(client)
  ELSE IF Truthy(guild)
  THEN IF guild.t = "Guild"
       THEN Done([client EXCEPT !.gcmd[guild.s][command] = settings[CmdKey(command)]])
       ELSE Failed(client)
  ELSE Done([client EXCEPT !.cmdGlobal[command] = settings[CmdKey(command)]])

(***************************************************************************)
(* setupGuildCommand (guild, command, settings). guild is whatever the     *)
(* caller passes: a Guild object or null from setupGuild, a key of         *)
(* this.items from the 'load' listener. A class body is strict mode code,  *)
(* so creating the property _commandsEnabled on a primitive (a string key) *)
(* throws a TypeError.                                                     *)
(***************************************************************************)
setupGuildCommand(client, guild, command, settings) ==
  IF settings[CmdKey(command)] = Undefined THEN Done(client)
  ELSE IF Truthy(guild)
  THEN IF guild.t = "Guild"
       THEN Done([client EXCEPT !.gcmd[guild.s][command] = settings[CmdKey(command)]])
       ELSE Failed(client)
  ELSE Done([client EXCEPT !.cmdGlobal[command] = settings[CmdKey(command)]])

\* setupGuildCategory (guild, category, settings)
setupGuildCategory(client, guild, category, settings) ==
  IF settings[CatKey(category)] = Undefined THEN Done(client)
  ELSE IF Truthy(guild)
  THEN IF guild.t = "Guild"
       THEN Done([client EXCEPT !.gcat[guild.s][category] = settings[CatKey(category)]])
       ELSE Failed(client)
  ELSE Done([client EXCEPT !.catGlobal[category] = settings[CatKey(category)]])

\* the loop of lines 167-169 over commandHandler.modules.values()
RECURSIVE SetupCommands(_, _, _, _)
SetupCommands(r, guild, todo, settings) ==
  IF todo = {} \/ r.threw THEN r
  ELSE LET command == CHOOSE c \in todo : TRUE IN
         SetupCommands(setupGuildCommand(r.client, guild, command, settings),
                       guild, todo \ {command}, settings)

\* the loop of lines 170-172 over commandHandler.categories.values()
RECURSIVE SetupCategories(_, _, _, _)
SetupCategories(r, guild, todo, settings) ==
  IF todo = {} \/ r.threw THEN r
  ELSE LET category == CHOOSE c \in todo : TRUE IN
         SetupCategories(setupGuildCategory(r.client, guild, category, settings),
                         guild, todo \ {category}, settings)

(***************************************************************************)
(* setupGuild without the lookup of line 159: the guild is never resolved  *)
(* to its Guild object, so every document is applied as the global one.    *)
(***************************************************************************)
setupGuild_noLookup(client, guild, settings) ==
  IF guild.t # "string" THEN Failed(client)
  ELSE LET c1 == IF settings["prefix"] = Undefined THEN client
                 ELSE [client EXCEPT !.prefix = settings["prefix"]]
           r2 == SetupCommands(Done(c1), Null, c1.modules, settings)
       IN SetupCategories(r2, Null, c1.categories, settings)

(***************************************************************************)
(* setupGuild (guild, settings): guild is an id string or "global".        *)
(***************************************************************************)
setupGuild(client, guild, settings) ==
  IF guild.t # "string" THEN Failed(client)
  ELSE LET g == IF guild.s \in client.guilds THEN GuildObj(guild.s) ELSE Null
           c1 == IF settings["prefix"] = Undefined THEN client
                 ELSE IF Truthy(g)
                      THEN [client EXCEPT !.gprefix[g.s] = settings["prefix"]]
                      ELSE [client EXCEPT !.prefix = settings["prefix"]]
           r2 == SetupCommands(Done(c1), g, c1.modules, settings)
       IN SetupCategories(r2, g, c1.categories, settings)

(***************************************************************************)
(* The state.                                                              *)
(***************************************************************************)
VARIABLES
  store,        \* the settings collection: guild field -> settings, or NoDoc
  items,        \* this.items, the cache
  cursor,       \* documents collection.find() has still to hand to forEach
  initPc,       \* where init() is: "new", "await" (line 47), "returned"
  listeners,    \* the events whose listener is attached to the client
  akairoClient, \* the client, its guilds, commands and categories
  calls,        \* the calls of get, set, delete and clear made, with results
  lastEvent,    \* the last client event emitted and how its listener ended
  ref,          \* argument of a direct call of MongoDBProvider.getGuildID
  resolved,     \* its result
  jobs          \* the async functions suspended at an await, oldest first

vars == <<store, items, cursor, initPc, listeners, akairoClient, calls, lastEvent,
          ref, resolved, jobs>>

\* the values of the guild field: 0 stands for "global" (lines 50 and 219)
Zero == NumberV(<<"0">>)
\* the model keeps records for "global" and for guild 1; guild 2 has none
StoreGuilds == {Zero, Str(<<"1">>)}

InitDocs ==
  { Doc(Str(<<"!">>), BoolV(FALSE), Undefined),
    Doc(Undefined, Undefined, BoolV(FALSE)) }

EventNames ==
  {"commandPrefixChange", "commandStatusChange", "categoryStatusChange",
   "guildCreate", "load", "categoryRegister"}

NoEvent == [name |-> "none", threw |-> FALSE, rejected |-> FALSE]
NotCalled == [threw |-> FALSE, val |-> [t |-> "none", s |-> <<>>], err |-> "not called"]

NewClient(guilds) ==
  [ guilds |-> guilds,
    gprefix |-> [g \in GuildIDs |-> Undefined],
    gcmd |-> [g \in GuildIDs |-> [c \in CommandIDs |-> Undefined]],
    gcat |-> [g \in GuildIDs |-> [c \in CategoryIDs |-> Undefined]],
    prefix |-> Undefined,
    modules |-> {},
    categories |-> {},
    cmdGlobal |-> [c \in CommandIDs |-> Undefined],
    catGlobal |-> [c \in CategoryIDs |-> Undefined] ]

\* after the constructor (lines 13-40) and the host's akairoClient assignment
Init ==
  /\ store \in [StoreGuilds -> InitDocs \cup {NoDoc}]
  /\ items = <<>>
  /\ cursor = {}
  /\ initPc = "new"
  /\ listeners = {}
  /\ akairoClient \in {NewClient(g) : g \in {{}, {<<"1">>}}}
  /\ calls = <<>>
  /\ lastEvent = NoEvent
  /\ ref = Null
  /\ resolved = NotCalled
  /\ jobs = <<>>

(***************************************************************************)
(* init(), lines 46-90.                                                    *)
(***************************************************************************)
\* An await suspends its function until the promise jobs queued before it
\* have run; the jobs run in the order of their awaits. A job is the function
\* suspended and the arguments it resumes with.
InitJob == [op |-> "init", guild |-> Null, settings |-> NoDoc]
UpdateJob(guild, settings) == [op |-> "updateGuild", guild |-> guild, settings |-> settings]

\* the call, up to the await of line 47
InitCall ==
  /\ initPc = "new"
  /\ initPc' = "await"
  /\ jobs' = Append(jobs, InitJob)
  /\ UNCHANGED <<store, items, cursor, listeners, akairoClient, calls, lastEvent,
                 ref, resolved>>

\* lines 49-89 run in one turn: find().forEach(...) starts the load and is not
\* awaited, the listeners are built and attached, init() returns
InitResume ==
  /\ initPc = "await"
  /\ jobs # <<>> /\ Head(jobs) = InitJob
  /\ jobs' = Tail(jobs)
  /\ initPc' = "returned"
  /\ cursor' = {[guild |-> g, settings |-> store[g]] : g \in {x \in DOMAIN store : store[x] # NoDoc}}
  /\ listeners' = EventNames
  /\ UNCHANGED <<store, items, akairoClient, calls, lastEvent, ref, resolved>>

\* the forEach callback without the translation of line 50: the document is
\* cached under its guild field as it is, 0 included
LoadDeliver_rawKey ==
  \E doc \in cursor :
    LET guild == doc.guild
        r == IF guild = Str(GLOBAL) \/ GuildsHas(akairoClient, doc.guild)
             THEN setupGuild(akairoClient, guild, doc.settings)
             ELSE Done(akairoClient)
    IN /\ items' = ItemsSet(items, guild, doc.settings)
       /\ akairoClient' = r.client
       /\ cursor' = IF r.threw THEN {} ELSE cursor \ {doc}
       /\ UNCHANGED <<store, initPc, listeners, calls, lastEvent, ref, resolved, jobs>>

\* the forEach callback of lines 49-56 on one document; if it throws, forEach
\* rejects and the iteration ends
LoadDeliver ==
  \E doc \in cursor :
    LET guild == IF doc.guild = Zero THEN Str(GLOBAL) ELSE doc.guild
        r == IF guild = Str(GLOBAL) \/ GuildsHas(akairoClient, doc.guild)
             THEN setupGuild(akairoClient, guild, doc.settings)
             ELSE Done(akairoClient)
    IN /\ items' = ItemsSet(items, guild, doc.settings)
       /\ akairoClient' = r.client
       /\ cursor' = IF r.threw THEN {} ELSE cursor \ {doc}
       /\ UNCHANGED <<store, initPc, listeners, calls, lastEvent, ref, resolved, jobs>>

(***************************************************************************)
(* The public operations, lines 99-149. Each begins with                   *)
(* this.getGuildID(guild), which throws (see ThisGetGuildID): get throws   *)
(* to its caller; set, delete and clear are async functions and return a   *)
(* rejected promise. Nothing after that call runs: this.items is not       *)
(* touched and updateGuild is not called.                                  *)
(***************************************************************************)
Refs == {Str(<<"1">>), Str(<<"a">>)}
Values == {Str(<<"?">>), ObjV(<<"a">>), ObjV(<<"b">>)}
CallKeys == {"prefix"}

Call(op, guild, key, value, out) ==
  [op |-> op, guild |-> guild, key |-> key, value |-> value, out |-> out]

\* get (guild, key, defaultValue) on the cache m
get(m, guild, key, defaultValue) ==
  LET guildID == ThisGetGuildID(guild) IN
    IF guildID.threw THEN guildID
    ELSE IF ItemsHas(m, guildID.val)
         THEN LET settings == ItemsGet(m, guildID.val) IN
                Return(IF settings[key] = Undefined THEN defaultValue ELSE settings[key])
         ELSE Return(defaultValue)

\* a call of get by the host
Get ==
  \E guild \in Refs, key \in CallKeys, defaultValue \in {Str(<<"d">>)} :
    /\ Len(calls) < MaxCalls
    /\ calls' = Append(calls, Call("get", guild, key, defaultValue,
                                   get(items, guild, key, defaultValue)))
    /\ UNCHANGED <<store, items, cursor, initPc, listeners, akairoClient, lastEvent,
                   ref, resolved, jobs>>

\* async set (guild, key, value): line 116 throws, the promise is rejected
Set ==
  \E guild \in Refs, key \in CallKeys, value \in Values :
    LET guildID == ThisGetGuildID(guild) IN
      /\ guildID.threw
      /\ Len(calls) < MaxCalls
      /\ calls' = Append(calls, Call("set", guild, key, value, guildID))
      /\ UNCHANGED <<store, items, cursor, initPc, listeners, akairoClient, lastEvent,
                     ref, resolved, jobs>>

(***************************************************************************)
(* updateGuild (guild, settings), lines 218-223: the whole settings        *)
(* document replaces the record's settings field, and the record is        *)
(* created if there is none (upsert). Its callers are set, delete and      *)
(* clear, which all throw before they reach it, so no action of Spec uses  *)
(* it; SpecEncode calls it directly.                                       *)
(***************************************************************************)
\* updateGuild whose guild field is made a number for every id: the id "0"
\* becomes the 0 of global
updateGuild_numeric(st, guild, settings) ==
  LET g == IF guild = Str(GLOBAL) \/ guild = Str(<<"0">>) THEN Zero ELSE guild IN
    [x \in DOMAIN st \cup {g} |-> IF x = g THEN settings ELSE st[x]]

updateGuild(st, guild, settings) ==
  LET g == IF guild = Str(GLOBAL) THEN Zero ELSE guild IN
    [x \in DOMAIN st \cup {g} |-> IF x = g THEN settings ELSE st[x]]

\* delete as lines 131-139 would run with a guild id that resolves: the field
\* is removed from the cached document, or from a new empty one, and the
\* document is upserted
Delete_upsert ==
  \E guild \in Refs, key \in CallKeys :
    LET guildID == getGuildID(guild)
        cached == ~ guildID.threw /\ ItemsHas(items, guildID.val)
        settings == IF cached THEN ItemsGet(items, guildID.val) ELSE EmptyDoc
        after == [settings EXCEPT ![key] = Undefined]
    IN /\ Len(calls) < MaxCalls
       /\ calls' = Append(calls, Call("delete", guild, key, Undefined,
                                      IF guildID.threw THEN guildID
                                      ELSE Return(settings[key])))
       /\ items' = IF cached THEN ItemsSet(items, guildID.val, after) ELSE items
       /\ store' = IF guildID.threw THEN store
                   ELSE updateGuild(store, guildID.val, after)
       /\ UNCHANGED <<cursor, initPc, listeners, akairoClient, lastEvent, ref, resolved, jobs>>

\* async delete (guild, key): line 132 throws, the promise is rejected
Delete ==
  \E guild \in Refs, key \in CallKeys :
    LET guildID == ThisGetGuildID(guild) IN
      /\ guildID.threw
      /\ Len(calls) < MaxCalls
      /\ calls' = Append(calls, Call("delete", guild, key, Undefined, guildID))
      /\ UNCHANGED <<store, items, cursor, initPc, listeners, akairoClient, lastEvent,
                     ref, resolved, jobs>>

\* async clear (guild): the argument of this.items.delete on line 147 throws
Clear ==
  \E guild \in Refs :
    LET guildID == ThisGetGuildID(guild) IN
      /\ guildID.threw
      /\ Len(calls) < MaxCalls
      /\ calls' = Append(calls, Call("clear", guild, "", Undefined, guildID))
      /\ UNCHANGED <<store, items, cursor, initPc, listeners, akairoClient, lastEvent,
                     ref, resolved, jobs>>

(***************************************************************************)
(* The listeners of lines 58-87, each run by the client event it is        *)
(* attached to. The host changes its own registries before it emits.       *)
(***************************************************************************)
\* threw: the listener threw; rejected: the promise of the this.set(...) it
\* called, which nothing awaits, was rejected
Event(name, r) == [name |-> name, threw |-> r.threw, rejected |-> FALSE]
SetEvent(name, guildID) == [name |-> name, threw |-> FALSE, rejected |-> guildID.threw]

\* 'commandPrefixChange': (guild, prefix) => this.set(guild, 'prefix', prefix);
\* line 116 of set throws and the promise is rejected
CommandPrefixChange ==
  \E guild \in {GuildObj(<<"1">>)}, prefix \in {Str(<<"?">>)} :
    LET guildID == ThisGetGuildID(guild) IN
      /\ "commandPrefixChange" \in listeners
      /\ guildID.threw
      /\ lastEvent' = SetEvent("commandPrefixChange", guildID)
      /\ UNCHANGED <<store, items, cursor, initPc, listeners, akairoClient, calls,
                     ref, resolved, jobs>>

\* 'commandStatusChange': this.set(guild, `cmd-${command.id}`, status)
CommandStatusChange ==
  \E guild \in {GuildObj(<<"1">>)}, command \in CommandIDs, status \in {BoolV(TRUE)} :
    LET guildID == ThisGetGuildID(guild) IN
      /\ "commandStatusChange" \in listeners
      /\ guildID.threw
      /\ lastEvent' = SetEvent("commandStatusChange", guildID)
      /\ UNCHANGED <<store, items, cursor, initPc, listeners, akairoClient, calls,
                     ref, resolved, jobs>>

\* 'categoryStatusChange': this.set(guild, `cat-${category.id}`, status)
CategoryStatusChange ==
  \E guild \in {GuildObj(<<"1">>)}, category \in CategoryIDs, status \in {BoolV(TRUE)} :
    LET guildID == ThisGetGuildID(guild) IN
      /\ "categoryStatusChange" \in listeners
      /\ guildID.threw
      /\ lastEvent' = SetEvent("categoryStatusChange", guildID)
      /\ UNCHANGED <<store, items, cursor, initPc, listeners, akairoClient, calls,
                     ref, resolved, jobs>>

\* a guild joins: the client adds it to guilds and emits 'guildCreate' (lines 67-71)
GuildCreate ==
  \E id \in GuildIDs \ akairoClient.guilds :
    LET joined == [akairoClient EXCEPT !.guilds = @ \cup {id}]
        settings == ItemsGet(items, Str(id))
        r == IF "guildCreate" \notin listeners \/ settings = NoDoc
             THEN Done(joined)
             ELSE setupGuild(joined, Str(id), settings)
    IN /\ akairoClient' = r.client
       /\ lastEvent' = Event("guildCreate", r)
       /\ UNCHANGED <<store, items, cursor, initPc, listeners, calls, ref, resolved, jobs>>

\* the loop of lines 75-79 over this.items, in insertion order, from entry i
RECURSIVE LoadLoop(_, _, _, _)
LoadLoop(r, m, i, command) ==
  IF i > Len(m) \/ r.threw THEN r
  ELSE LoadLoop(IF m[i].k = Str(GLOBAL) \/ GuildsHas(r.client, m[i].k)
                THEN setupGuildCommand(r.client, m[i].k, command, m[i].v)
                ELSE r,
                m, i + 1, command)

\* the command handler registers a command, or loads it again, and emits 'load'
\* (lines 73-80)
Load ==
  \E command \in CommandIDs :
    LET isReload == command \in akairoClient.modules
        registered == [akairoClient EXCEPT !.modules = @ \cup {command}]
        r == IF "load" \notin listeners \/ isReload
             THEN Done(registered)
             ELSE LoadLoop(Done(registered), items, 1, command)
    IN /\ akairoClient' = r.client
       /\ lastEvent' = Event("load", r)
       /\ UNCHANGED <<store, items, cursor, initPc, listeners, calls, ref, resolved, jobs>>

\* the loop of lines 82-86 over this.items, in insertion order, from entry i
RECURSIVE CategoryLoop(_, _, _, _)
CategoryLoop(r, m, i, category) ==
  IF i > Len(m) \/ r.threw THEN r
  ELSE CategoryLoop(IF m[i].k = Str(GLOBAL) \/ GuildsHas(r.client, m[i].k)
                    THEN setupGuildCategory(r.client, m[i].k, category, m[i].v)
                    ELSE r,
                    m, i + 1, category)

\* the command handler registers a category and emits 'categoryRegister'
\* (lines 81-87)
CategoryRegister ==
  \E category \in CategoryIDs \ akairoClient.categories :
    LET registered == [akairoClient EXCEPT !.categories = @ \cup {category}]
        r == IF "categoryRegister" \notin listeners
             THEN Done(registered)
             ELSE CategoryLoop(Done(registered), items, 1, category)
    IN /\ akairoClient' = r.client
       /\ lastEvent' = Event("categoryRegister", r)
       /\ UNCHANGED <<store, items, cursor, initPc, listeners, calls, ref, resolved, jobs>>

Next ==
  \/ InitCall
  \/ InitResume
  \/ LoadDeliver
  \/ Get
  \/ Set
  \/ Delete
  \/ Clear
  \/ CommandPrefixChange
  \/ CommandStatusChange
  \/ CategoryStatusChange
  \/ GuildCreate
  \/ Load
  \/ CategoryRegister

Spec == Init /\ [][Next]_vars

(***************************************************************************)
(* updateGuild called directly, as set, delete and clear would call it     *)
(* with a resolved id, next to init's load: the encoding of the guild      *)
(* field on its way into the store and back. Each document written names   *)
(* in its prefix field the id it was written for.                          *)
(***************************************************************************)
EncodeGuilds == {Str(GLOBAL), Str(<<"0">>), Str(<<"1">>)}
EncodeDocs(guild) == {Doc(guild, Undefined, Undefined), Doc(guild, BoolV(FALSE), Undefined)}

InitEncode ==
  /\ store = [g \in {} |-> NoDoc]
  /\ items = <<>>
  /\ cursor = {}
  /\ initPc = "new"
  /\ listeners = {}
  /\ akairoClient = NewClient({<<"1">>})
  /\ calls = <<>>
  /\ lastEvent = NoEvent
  /\ ref = Null
  /\ resolved = NotCalled
  /\ jobs = <<>>

\* the call of updateGuild, up to the await of line 221. Line 219 has
\* replaced "global" in the local guild by then; the replacement depends on the
\* argument alone and is made where the job resumes (updateGuild).
UpdateGuildCall ==
  \E guild \in EncodeGuilds : \E settings \in EncodeDocs(guild) :
    /\ Len(SelectSeq(jobs, LAMBDA j : j.op = "updateGuild")) < MaxUpdates
    /\ jobs' = Append(jobs, UpdateJob(guild, settings))
    /\ UNCHANGED <<store, items, cursor, initPc, listeners, akairoClient, calls,
                   lastEvent, ref, resolved>>

\* the caller changes the settings object it has passed while updateGuild is
\* suspended: line 222 reads the object as it is when the job resumes
SettingsChange ==
  \E i \in 1..Len(jobs) : \E settings \in EncodeDocs(jobs[i].guild) :
    /\ jobs[i].op = "updateGuild"
    /\ settings # jobs[i].settings
    /\ jobs' = [jobs EXCEPT ![i].settings = settings]
    /\ UNCHANGED <<store, items, cursor, initPc, listeners, akairoClient, calls,
                   lastEvent, ref, resolved>>

\* line 222: the job resumes and sends the upsert, which the store applies
UpdateGuildResume ==
  /\ jobs # <<>> /\ Head(jobs).op = "updateGuild"
  /\ store' = updateGuild(store, Head(jobs).guild, Head(jobs).settings)
  /\ jobs' = Tail(jobs)
  /\ UNCHANGED <<items, cursor, initPc, listeners, akairoClient, calls, lastEvent,
                 ref, resolved>>

NextEncode ==
  \/ UpdateGuildCall
  \/ SettingsChange
  \/ UpdateGuildResume
  \/ InitCall
  \/ InitResume
  \/ LoadDeliver

SpecEncode == InitEncode /\ [][NextEncode]_vars

(***************************************************************************)
(* MongoDBProvider.getGuildID called directly on one reference.            *)
(***************************************************************************)
Alphabet == {"0", "1", "a", "-", ".", " ", "\f", "U+00A0", "e", "x"}
Strings == UNION {[1..n -> Alphabet] : n \in 0..MaxLen}
RefInputs ==
  {Str(chars) : chars \in Strings}
    \cup {Str(GLOBAL), Str(INFINITY), Str(<<"0", "b", "1">>), Str(<<"1", "2", "3", "4", "5">>),
          Null, Undefined, NumberV(<<"1">>), GuildObj(<<"1">>), GuildObj(<<"2">>)}

InitResolve ==
  /\ store = [g \in StoreGuilds |-> NoDoc]
  /\ items = <<>>
  /\ cursor = {}
  /\ initPc = "new"
  /\ listeners = {}
  /\ akairoClient = NewClient({})
  /\ calls = <<>>
  /\ lastEvent = NoEvent
  /\ ref \in RefInputs
  /\ resolved = NotCalled
  /\ jobs = <<>>

Resolve ==
  /\ resolved = NotCalled
  /\ resolved' = getGuildID(ref)
  /\ UNCHANGED <<store, items, cursor, initPc, listeners, akairoClient, calls, lastEvent,
                 ref, jobs>>

SpecResolve == InitResolve /\ [][Resolve]_vars

(***************************************************************************)
(* A host that calls set, delete and clear only once init() has returned,  *)
(* while the load that init() has started may still be delivering records. *)
(***************************************************************************)
SetAfterInit == initPc = "returned" /\ Set
DeleteAfterInit == initPc = "returned" /\ Delete
ClearAfterInit == initPc = "returned" /\ Clear

NextAfterInit ==
  \/ InitCall
  \/ InitResume
  \/ LoadDeliver
  \/ SetAfterInit
  \/ DeleteAfterInit
  \/ ClearAfterInit

SpecAfterInit == Init /\ [][NextAfterInit]_vars

(***************************************************************************)
(* What the specification says, for the properties below.                  *)
(***************************************************************************)
\* resolveTenantID as specified: a tenant object gives its identifier; "global",
\* null and an absent reference give global; a string of digits only gives
\* itself; anything else fails with InvalidReference
resolveTenantID(r) ==
  IF r.t = "Guild" THEN Return(Str(r.s))
  ELSE IF r = Str(GLOBAL) \/ r = Null \/ r = Undefined THEN Return(Str(GLOBAL))
  ELSE IF r.t = "string" /\ IsDigits(r.s) THEN Return(r)
  ELSE Throw("InvalidReference")

ValidRef(r) == ~ resolveTenantID(r).threw
TenantOf(r) == resolveTenantID(r).val
\* the guild field a tenant's record is stored under: global is the sentinel 0
StoreKey(tenant) == IF tenant = Str(GLOBAL) THEN Zero ELSE tenant

\* merge(existing, incoming) as specified, on the values of the model: two
\* structured objects blend field by field, anything else is replaced
RECURSIVE MergeFields(_, _)
MergeFields(a, b) ==
  IF b = <<>> THEN a
  ELSE MergeFields(IF \E i \in 1..Len(a) : a[i] = Head(b) THEN a ELSE Append(a, Head(b)),
                   Tail(b))
merge(existing, incoming) ==
  IF incoming.t = "object" /\ existing.t = "object"
  THEN ObjV(MergeFields(existing.s, incoming.s))
  ELSE incoming

\* call i is the last call of set, delete or clear for its tenant
LastWrite(i) ==
  \A j \in (i + 1)..Len(calls) :
    calls[j].op \in {"set", "delete", "clear"} => calls[j].guild # calls[i].guild

\* every record of the store is in the cache under its tenant
CacheHoldsStore ==
  \A g \in StoreGuilds :
    store[g] # NoDoc =>
      LET tenant == IF g = Zero THEN Str(GLOBAL) ELSE g IN
        ItemsHas(items, tenant) /\ ItemsGet(items, tenant) = store[g]

(***************************************************************************)
(* C1. init() attaches the listeners only after the bulk load is complete: *)
(* whenever a listener is attached, the cache holds every record that was  *)
(* in the store when init() started (the store does not change here).      *)
(***************************************************************************)
C1_ListenersAfterLoad == listeners # {} => CacheHoldsStore

(***************************************************************************)
(* C2. After set(ref, key, value) on a valid reference, which no store     *)
(* error can fail here, the call has completed successfully and            *)
(* get(ref, key, d) returns value.                                         *)
(***************************************************************************)
C2_SetVisibleToGet ==
  \A i \in 1..Len(calls) :
    LET c == calls[i] IN
      (c.op = "set" /\ ValidRef(c.guild) /\ LastWrite(i) /\ c.out.err # "StoreError") =>
        /\ ~ c.out.threw
        /\ get(items, c.guild, c.key, Str(<<"d">>)) = Return(c.value)

(***************************************************************************)
(* C3. Merge law: set(ref, k, v1) then set(ref, k, v2) with v1 and v2      *)
(* structured objects leaves the deep merge of v1 and v2 as the value      *)
(* get(ref, k) returns.                                                    *)
(***************************************************************************)
C3_MergeLaw ==
  (/\ Len(calls) = 2
   /\ calls[1].op = "set" /\ calls[2].op = "set"
   /\ calls[1].guild = calls[2].guild /\ calls[1].key = calls[2].key
   /\ ValidRef(calls[1].guild)
   /\ calls[1].value.t = "object" /\ calls[2].value.t = "object") =>
    get(items, calls[2].guild, calls[2].key, Str(<<"d">>))
      = Return(merge(calls[1].value, calls[2].value))

(***************************************************************************)
(* C4. delete(ref, key) on a tenant with no cached document fails with a   *)
(* NoEntry error. (The cache only grows here, so a tenant without a        *)
(* document now had none when delete was called.)                          *)
(***************************************************************************)
C4_DeleteNoEntry ==
  \A i \in 1..Len(calls) :
    LET c == calls[i] IN
      (c.op = "delete" /\ ValidRef(c.guild) /\ ~ ItemsHas(items, TenantOf(c.guild))) =>
        c.out.threw /\ c.out.err = "NoEntry"

(***************************************************************************)
(* C5. After clear(ref) on a valid reference, with no other write for the  *)
(* tenant afterwards and no store error, clear has completed successfully  *)
(* and the store holds no record for the tenant.                           *)
(***************************************************************************)
C5_ClearRemovesRecord ==
  \A i \in 1..Len(calls) :
    LET c == calls[i] IN
      (c.op = "clear" /\ ValidRef(c.guild) /\ LastWrite(i) /\ c.out.err # "StoreError") =>
        /\ ~ c.out.threw
        /\ StoreKey(TenantOf(c.guild)) \in StoreGuilds =>
             store[StoreKey(TenantOf(c.guild))] = NoDoc

(***************************************************************************)
(* C6. A set on a valid reference is rejected only with the error of its   *)
(* failed store write, and the cache mutation made before the write is     *)
(* kept: whether or not set is rejected, get(ref, key, d) returns the new  *)
(* value, and after a rejection the store record is as it was before.      *)
(***************************************************************************)
C6_FailedWriteKeepsCache ==
  \A i \in 1..Len(calls) :
    LET c == calls[i] IN
      (c.op = "set" /\ ValidRef(c.guild) /\ LastWrite(i) /\ c.out.threw) =>
        /\ c.out.err = "StoreError"
        /\ get(items, c.guild, c.key, Str(<<"d">>)) = Return(c.value)

(***************************************************************************)
(* C7. The cache reflects the most recently issued call: after set A and   *)
(* then set B on the same tenant and key, get returns B's value from the   *)
(* moment B is issued, however the two store writes settle.                *)
(***************************************************************************)
C7_CacheFollowsLastSet ==
  \A i, j \in 1..Len(calls) :
    (/\ i < j /\ j = Len(calls)
     /\ calls[i].op = "set" /\ calls[j].op = "set"
     /\ calls[i].guild = calls[j].guild /\ calls[i].key = calls[j].key
     /\ ValidRef(calls[j].guild)) =>
      get(items, calls[j].guild, calls[j].key, Str(<<"d">>)).val = calls[j].value

(***************************************************************************)
(* C8. get(ref, key, default) on a valid reference returns the cached      *)
(* value exactly when the tenant has a cached document in which key is     *)
(* defined, falsy values included, and default in every other case.        *)
(***************************************************************************)
C8_GetValueOrDefault ==
  \A guild \in Refs, key \in Keys, defaultValue \in {Str(<<"d">>)} :
    ValidRef(guild) =>
      get(items, guild, key, defaultValue) =
        Return(IF /\ ItemsHas(items, TenantOf(guild))
                  /\ ItemsGet(items, TenantOf(guild))[key] # Undefined
               THEN ItemsGet(items, TenantOf(guild))[key]
               ELSE defaultValue)

(***************************************************************************)
(* C9. Identity resolution agrees with the four rules of resolveTenantID   *)
(* on every reference: it fails exactly when they fail and returns the     *)
(* tenant they return.                                                     *)
(***************************************************************************)
C9_ResolveAgrees ==
  resolved # NotCalled =>
    /\ resolved.threw = resolveTenantID(ref).threw
    /\ resolved.val = resolveTenantID(ref).val

(***************************************************************************)
(* C10. Each set(ref, key, value) issues one store write, an upsert of     *)
(* field key of the tenant's record: once set on a valid reference has     *)
(* settled without a store error the record exists, holds value under key  *)
(* and is otherwise unchanged.                                             *)
(***************************************************************************)
C10_SetUpsertsField ==
  \A i \in 1..Len(calls) :
    LET c == calls[i]
        g == StoreKey(TenantOf(c.guild))
    IN (/\ c.op = "set" /\ ValidRef(c.guild) /\ LastWrite(i) /\ c.out.err # "StoreError"
        /\ g \in StoreGuilds) =>
         /\ store[g] # NoDoc
         /\ store[g][c.key] = c.value

(***************************************************************************)
(* The call a step adds to calls, for properties of single steps.          *)
(***************************************************************************)
Called(op) ==
  /\ Len(calls') = Len(calls) + 1
  /\ calls'[Len(calls')].op = op
NewCall == calls'[Len(calls')]

(***************************************************************************)
(* C11. delete(ref, key) on a tenant that has a cached document returns    *)
(* the value key held before the call (undefined when it was not set),     *)
(* removes key from the document and leaves the other keys and the cache   *)
(* entry in place.                                                         *)
(***************************************************************************)
C11_DeleteRemovesKey ==
  [][(/\ Called("delete")
      /\ ValidRef(NewCall.guild)
      /\ ItemsHas(items, TenantOf(NewCall.guild))) =>
       LET tenant == TenantOf(NewCall.guild)
           before == ItemsGet(items, tenant)
       IN /\ NewCall.out = Return(before[NewCall.key])
          /\ ItemsHas(items', tenant)
          /\ ItemsGet(items', tenant) = [before EXCEPT ![NewCall.key] = Undefined]]_vars

(***************************************************************************)
(* C12. After clear(ref) on a valid reference, and until a later set on    *)
(* that tenant, get(ref, key, default) returns default for every key.      *)
(***************************************************************************)
C12_ClearThenDefault ==
  \A i \in 1..Len(calls) :
    (calls[i].op = "clear" /\ ValidRef(calls[i].guild) /\ LastWrite(i)) =>
      \A key \in Keys :
        get(items, calls[i].guild, key, Str(<<"d">>)) = Return(Str(<<"d">>))

(***************************************************************************)
(* C13. Eventual store update: once set(ref, key, value) on a valid        *)
(* reference has settled, no store error having occurred and no later     *)
(* operation on the tenant being in flight, set has completed and the      *)
(* store record of the tenant holds under key the value the cache holds.   *)
(***************************************************************************)
C13_StoreFollowsCache ==
  \A i \in 1..Len(calls) :
    LET c == calls[i]
        tenant == TenantOf(c.guild)
    IN (/\ c.op = "set" /\ ValidRef(c.guild) /\ LastWrite(i) /\ c.out.err # "StoreError"
        /\ StoreKey(tenant) \in DOMAIN store) =>
         /\ ~ c.out.threw
         /\ ItemsHas(items, tenant)
         /\ store[StoreKey(tenant)][c.key] = ItemsGet(items, tenant)[c.key]

(***************************************************************************)
(* C14. When a command is registered (a 'load' event that is not a reload, *)
(* the listener being attached), the listener completes without error,     *)
(* the command's global enabled flag takes the cmd-<id> setting cached     *)
(* under global, and the per-command flag of every known guild that has a  *)
(* cached document takes that guild's cmd-<id> setting.                    *)
(***************************************************************************)
C14_LoadPushesSetting ==
  [][\A command \in CommandIDs :
       (/\ command \notin akairoClient.modules
        /\ command \in akairoClient'.modules
        /\ "load" \in listeners) =>
         /\ lastEvent' = [name |-> "load", threw |-> FALSE, rejected |-> FALSE]
         /\ ItemsGet(items, Str(GLOBAL))[CmdKey(command)].t \notin {"undefined", "none"} =>
              akairoClient'.cmdGlobal[command] = ItemsGet(items, Str(GLOBAL))[CmdKey(command)]
         /\ \A g \in akairoClient.guilds :
              ItemsGet(items, Str(g))[CmdKey(command)].t \notin {"undefined", "none"} =>
                akairoClient'.gcmd[g][command] = ItemsGet(items, Str(g))[CmdKey(command)]]_vars

(***************************************************************************)
(* C15. Settings are applied globally only from the document cached under  *)
(* global, and a guild's attributes only from the document cached under    *)
(* that guild and only when the client knows the guild: an attribute that  *)
(* is set holds the value of the matching cached document, so the settings *)
(* of a guild never reach a global attribute or another guild.             *)
(***************************************************************************)
C15_ScopedApplication ==
  LET globalDoc == ItemsGet(items, Str(GLOBAL)) IN
    /\ akairoClient.prefix # Undefined => akairoClient.prefix = globalDoc["prefix"]
    /\ \A c \in CommandIDs :
         akairoClient.cmdGlobal[c] # Undefined =>
           akairoClient.cmdGlobal[c] = globalDoc[CmdKey(c)]
    /\ \A c \in CategoryIDs :
         akairoClient.catGlobal[c] # Undefined =>
           akairoClient.catGlobal[c] = globalDoc[CatKey(c)]
    /\ \A g \in GuildIDs :
         LET doc == ItemsGet(items, Str(g)) IN
           /\ akairoClient.gprefix[g] # Undefined =>
                g \in akairoClient.guilds /\ akairoClient.gprefix[g] = doc["prefix"]
           /\ \A c \in CommandIDs :
                akairoClient.gcmd[g][c] # Undefined =>
                  g \in akairoClient.guilds /\ akairoClient.gcmd[g][c] = doc[CmdKey(c)]
           /\ \A c \in CategoryIDs :
                akairoClient.gcat[g][c] # Undefined =>
                  g \in akairoClient.guilds /\ akairoClient.gcat[g][c] = doc[CatKey(c)]

\* guild 1's document has been applied to guild 1, with its command flag, while
\* global, whose cached document sets no prefix, has none
C15_Witness ==
  /\ ItemsHas(items, Str(GLOBAL))
  /\ ItemsGet(items, Str(GLOBAL))["prefix"] = Undefined
  /\ akairoClient.prefix = Undefined
  /\ akairoClient.gprefix[<<"1">>] = Str(<<"!">>)
  /\ akairoClient.gcmd[<<"1">>]["ping"] = BoolV(FALSE)
  /\ akairoClient.catGlobal["util"] = BoolV(FALSE)

(***************************************************************************)
(* C16. When a guild joins (guildCreate, the listener being attached) and  *)
(* the cache holds a document for it, the listener completes and every     *)
(* setting of the document is on the Guild object afterwards: its prefix   *)
(* and the cmd-<id> and cat-<id> flags of the registered commands and      *)
(* categories. When the cache holds no document for it, the client is      *)
(* unchanged but for the new guild.                                        *)
(***************************************************************************)
C16_GuildCreatePushes ==
  [][\A id \in GuildIDs :
       (/\ id \notin akairoClient.guilds
        /\ id \in akairoClient'.guilds
        /\ "guildCreate" \in listeners) =>
         LET doc == ItemsGet(items, Str(id)) IN
           IF ItemsHas(items, Str(id))
           THEN /\ lastEvent' = [name |-> "guildCreate", threw |-> FALSE, rejected |-> FALSE]
                /\ doc["prefix"] # Undefined => akairoClient'.gprefix[id] = doc["prefix"]
                /\ \A c \in akairoClient.modules :
                     doc[CmdKey(c)] # Undefined =>
                       akairoClient'.gcmd[id][c] = doc[CmdKey(c)]
                /\ \A c \in akairoClient.categories :
                     doc[CatKey(c)] # Undefined =>
                       akairoClient'.gcat[id][c] = doc[CatKey(c)]
           ELSE akairoClient' = [akairoClient EXCEPT !.guilds = @ \cup {id}]]_vars

\* guild 1 has joined, as the last event, a client that did not know it, and
\* carries the prefix and the command flag of its cached document
C16_Witness ==
  /\ lastEvent.name = "guildCreate"
  /\ akairoClient.guilds = {<<"1">>}
  /\ ItemsHas(items, Str(<<"1">>))
  /\ akairoClient.gprefix[<<"1">>] = Str(<<"!">>)
  /\ akairoClient.gcmd[<<"1">>]["ping"] = BoolV(FALSE)

(***************************************************************************)
(* C17. Every key of the cache is a resolved TenantID: the string "global" *)
(* or a string of digits, which identity resolution maps to itself. No     *)
(* Guild object, null or the store's 0 is a key.                           *)
(***************************************************************************)
C17_CacheKeysResolved ==
  \A i \in 1..Len(items) :
    /\ items[i].k.t = "string"
    /\ items[i].k.s = GLOBAL \/ IsDigits(items[i].k.s)
    /\ resolveTenantID(items[i].k) = Return(items[i].k)

\* the load has cached the global record and the record of guild 1, and set,
\* delete or clear has been called
C17_Witness ==
  /\ initPc = "returned" /\ cursor = {}
  /\ ItemsHas(items, Str(GLOBAL)) /\ ItemsHas(items, Str(<<"1">>))
  /\ \E i \in 1..Len(calls) : calls[i].op \in {"set", "delete", "clear"}

(***************************************************************************)
(* C18. The global tenant round-trips through the store encoding: what is  *)
(* written for global lies under the guild field 0 and is loaded under     *)
(* "global"; what is written for an id, the id "0" included, lies under    *)
(* that id and is loaded under it. Nothing is stored under the string      *)
(* "global", nothing is cached under 0, and the client-wide prefix only    *)
(* ever comes from the global document.                                    *)
(***************************************************************************)
C18_GlobalRoundTrip ==
  /\ \A g \in DOMAIN store :
       /\ g # Str(GLOBAL)
       /\ store[g]["prefix"] = (IF g = Zero THEN Str(GLOBAL) ELSE g)
  /\ \A i \in 1..Len(items) :
       /\ items[i].k # Zero
       /\ items[i].v["prefix"] = items[i].k
  /\ akairoClient.prefix \in {Undefined, Str(GLOBAL)}

\* documents were written for global and for the id "0", and the load has
\* delivered both
C18_Witness ==
  /\ Zero \in DOMAIN store /\ Str(<<"0">>) \in DOMAIN store
  /\ cursor = {}
  /\ ItemsHas(items, Str(GLOBAL)) /\ ItemsHas(items, Str(<<"0">>))
  /\ akairoClient.prefix = Str(GLOBAL)

\* what the cache holds for a tenant and key: undefined without a document
CachedValue(m, tenant, key) ==
  IF ItemsHas(m, tenant) THEN ItemsGet(m, tenant)[key] ELSE Undefined

(***************************************************************************)
(* C19. Once set(ref, key, value) has been issued after init() returned,   *)
(* the cached value of that tenant and key changes only in a step that is  *)
(* a later set, delete or clear on that tenant: no record that the load    *)
(* delivers late changes it. Every call of SpecAfterInit is issued after   *)
(* init() has returned.                                                    *)
(***************************************************************************)
C19_SetSurvivesLoad ==
  [][\A i \in 1..Len(calls) :
       (calls[i].op = "set" /\ ValidRef(calls[i].guild)) =>
         LET tenant == TenantOf(calls[i].guild) IN
           CachedValue(items', tenant, calls[i].key) # CachedValue(items, tenant, calls[i].key) =>
             /\ Len(calls') = Len(calls) + 1
             /\ NewCall.op \in {"set", "delete", "clear"}
             /\ ValidRef(NewCall.guild)
             /\ TenantOf(NewCall.guild) = tenant]_vars

(***************************************************************************)
(* C20. Store records are created only by set: a step that leaves a record *)
(* in the store where there was none is a call of set on the tenant of     *)
(* that record. In particular no call of delete or clear creates one.      *)
(***************************************************************************)
C20_OnlySetCreates ==
  [][\A g \in DOMAIN store' :
       (store'[g] # NoDoc /\ ~ (g \in DOMAIN store /\ store[g] # NoDoc)) =>
         /\ Called("set")
         /\ ValidRef(NewCall.guild)
         /\ StoreKey(TenantOf(NewCall.guild)) = g]_vars

\* delete and clear have both been called for tenant "1", which has no record
C20_Witness ==
  /\ store[Str(<<"1">>)] = NoDoc
  /\ \E i \in 1..Len(calls) : calls[i].op = "delete" /\ calls[i].guild = Str(<<"1">>)
  /\ \E i \in 1..Len(calls) : calls[i].op = "clear" /\ calls[i].guild = Str(<<"1">>)

====
